---- MODULE Spec2Model ----
(***************************************************************************)
(* qtask: a Redis-backed job queue.  Queue (src/src/queue.ts) admits jobs  *)
(* with add(), registers one Consumer per queue with process() and drains  *)
(* the store with processQueueTasks(), which is started by the interval    *)
(* timer, by the 'qtask:newjob' message handler and by process() itself.   *)
(* Consumer (src/src/consumer.ts) is the SLEEPING/RUNNING state machine.   *)
(*                                                                         *)
(* Every `await` of the TypeScript code is a suspension point: an action   *)
(* of this model resumes one task from its await, performs the awaited     *)
(* store operation and runs the synchronous code up to the next await.     *)
(* The enqueue and dequeue Lua scripts are not part of the sources; they   *)
(* are modelled from their contract (EnqueuePositions, DequeueScript).     *)
(***************************************************************************)
EXTENDS Integers, Sequences, FiniteSets, Bags, TLC

\* ------------------------------------------------------------------ bounds
MaxJobs == 3            \* jobs admitted in one behaviour of Spec
MaxTimedJobs == 2       \* jobs admitted in one behaviour of TimedSpec
MaxRaceJobs == 2        \* jobs admitted in one behaviour of TwoSpec and LiveSpec
MaxTime == 1            \* the clock runs from 0 to MaxTime
MaxTasks == 2           \* asynchronous tasks of the subscribers alive at once
SmallPool == 2          \* pool ceiling scaled to MaxTasks concurrent handlers
MaxFifoTime == 2        \* the clock of FifoSpec runs from 0 to MaxFifoTime

\* ------------------------------------------------------------- input sets
Queues == {"q1"}
Groups == {"g1", "g2"}
Publishers == {"pub"}

\* the scripts the constructor names (queue.ts line 31)
Scripts == {"dequeue", "enqueue", "get_status", "update_status"}

\* the processing callbacks a caller can pass to process()
Callbacks == {"cb1", "cb2"}

\* JavaScript values a caller can pass as `data`: a plain JSON object, the
\* number NaN and undefined
Payloads == {"object", "NaN", "undefined"}

\* IAddJobOptions as add() completes them: priority ?? 0, delay ?? 0, ttl ?? 0
NoOptions == [priority |-> 0, delay |-> 0, ttl |-> 0]
LowPriority == [priority |-> 1, delay |-> 0, ttl |-> 0]
Delayed == [priority |-> 0, delay |-> 1, ttl |-> 0]
ShortLived == [priority |-> 0, delay |-> 0, ttl |-> 1]
IAddJobOptions == {NoOptions, LowPriority, Delayed, ShortLived}

\* the ways a processing callback can complete: done(), done(err), throw
Outcomes == {"done", "doneErr", "throw"}

\* JSON.stringify(data) as the enqueue script receives it (queue.ts line 251):
\* NaN is written as null; undefined has no JSON text and the client sends
\* the empty string as the argument
JSONstringify(v) ==
    CASE v = "object" -> "{}"
      [] v = "NaN" -> "null"
      [] v = "null" -> "null"
      [] OTHER -> ""

\* JSON.parse(jobDataStr) (queue.ts line 133); the empty string is no JSON text
JSONparse(t) ==
    CASE t = "{}" -> "object"
      [] t = "null" -> "null"
      [] OTHER -> "SyntaxError"

VARIABLES
    now,          \* the store's clock
    jobs,         \* jobs[id]: the job record the enqueue script wrote
    groupsIndex,  \* groupsIndex[q]: the set qtask:<q>:groups
    zset,         \* zset[q][g]: the sorted set qtask:<q>:group:<g>, best first
    msgs,         \* msgs[s]: 'qtask:newjob' messages published, not yet handled by s
    scriptShas,   \* scriptShas[inst]: the scripts whose handle RedisManager has cached
    pool,         \* pool[inst]: RedisManager.pool: its ceiling, the connections lent, draining
    timerOn,      \* subscribers whose activeProcessingInterval is set
    regOrder,     \* regOrder[s]: the keys of the consumers Map, in insertion order
    handler,      \* handler[s][q]: the callback of the consumer, "none" when not registered
    status,       \* status[s][q]: Consumer.status, "NONE" when not registered
    tasks,        \* the bag of asynchronous tasks, each with the await it is suspended at
    invoked,      \* invoked[id]: how many times a callback was invoked with job id
    handed,       \* handed[id]: how many times the dequeue script returned job id
    rejected,     \* the jobs whose dispatch threw 'already running'
    discarded,    \* the jobs the dequeue script dropped as expired
    sent,         \* sent[n]: the arguments and the result of the n-th admitting add()
    log           \* the calls that failed and the init() calls: what they returned

vars == <<now, jobs, groupsIndex, zset, msgs, scriptShas, pool, timerOn, regOrder,
          handler, status, tasks, invoked, handed, rejected, discarded, sent, log>>

storeVars == <<jobs, groupsIndex, zset, discarded>>

\* ---------------------------------------------------------------- helpers
\* the subscriber instances of the behaviour, and all its instances
Subscribers == DOMAIN status
Instances == Publishers \cup Subscribers

Range(s) == {s[x] : x \in DOMAIN s}

\* the orders in which SMEMBERS can return the members of a set
Perms(S) == {s \in [1..Cardinality(S) -> S] : Range(s) = S}

\* what a call leaves in the log: what it returned or threw, and why
Returned(op, inst, res, cause, admitted) ==
    [op |-> op, inst |-> inst, res |-> res, cause |-> cause, admitted |-> admitted]

\* a task of instance s, suspended at pc
Task(kind, s, pc, q, g, k) ==
    [kind |-> kind, inst |-> s, pc |-> pc, queue |-> q, group |-> g, k |-> k,
     groups |-> <<>>, i |-> 0, job |-> 0, got |-> <<>>, idle |-> {}]

One(tk) == SetToBag({tk})

\* the number of tasks among those of S (a set of task records)
Count(S) == BagCardinality([tk \in S |-> tasks[tk]])

\* the awaits inside processQueueTasks
SweepPcs == {"acquire", "smembers", "zcard", "srem", "evalsha", "callback"}

\* the tasks that are inside processQueueTasks(q, consumer of s)
Sweeps(s, q) == {tk \in BagToSet(tasks) : tk.inst = s /\ tk.queue = q /\ tk.pc \in SweepPcs}

\* the tasks whose Consumer.process awaits the callback's completion signal
InFlight(s, q) == {tk \in BagToSet(tasks) : tk.inst = s /\ tk.queue = q /\ tk.pc = "callback"}

\* ----------------------------------------------- the store's Lua scripts
\* The sort key of the enqueue script: lower priority first and, within equal
\* priority, earlier notBefore first.
KeyLE(a, b) ==
    \/ a.priority < b.priority
    \/ a.priority = b.priority /\ a.notBefore <= b.notBefore

Sorted(z, js) == \A x, y \in DOMAIN z : x < y => KeyLE(js[z[x]], js[z[y]])

InsertAt(z, p, id) == SubSeq(z, 1, p) \o <<id>> \o SubSeq(z, p + 1, Len(z))

\* where ZADD can place a new member: anywhere that keeps the set sorted (the
\* order among members of equal score is not fixed by the contract)
EnqueuePositions(z, id, js) == {p \in 0..Len(z) : Sorted(InsertAt(z, p, id), js)}

\* the record the enqueue script writes for a job admitted at time `at`
NewJob(q, g, payload, o, at) ==
    [queue |-> q, group |-> g, data |-> payload, priority |-> o.priority,
     notBefore |-> at + o.delay,
     expiresAt |-> IF o.ttl > 0 THEN at + o.ttl ELSE 0,
     status |-> "queued"]

\* a dequeue that does not look at notBefore
AlwaysEligible(j, at) == TRUE

Eligible(j, at) == j.notBefore <= at

\* a dequeue that does not look at expiresAt
NeverExpired(j, at) == FALSE

Expired(j, at) == j.expiresAt # 0 /\ j.expiresAt <= at

\* dequeue(groupKey): looks at the best-ranked entry.  Not yet eligible: the
\* group yields nothing.  Expired: the entry is discarded and the script goes
\* on to the next entry (more = TRUE) or yields nothing (more = FALSE); the
\* contract allows both.  Otherwise the entry is popped and returned.
\* a dequeue that reads the best-ranked entry and leaves it in the collection
DequeuePeek(z, at, more) ==
    IF z = <<>> \/ ~Eligible(jobs[Head(z)], at)
    THEN [job |-> 0, rest |-> z, dropped |-> {}]
    ELSE [job |-> Head(z), rest |-> z, dropped |-> {}]

RECURSIVE DequeueScript(_, _, _)
DequeueScript(z, at, more) ==
    IF z = <<>> THEN [job |-> 0, rest |-> z, dropped |-> {}]
    ELSE LET h == Head(z) IN
         IF ~Eligible(jobs[h], at) THEN [job |-> 0, rest |-> z, dropped |-> {}]
         ELSE IF Expired(jobs[h], at)
              THEN IF more
                   THEN LET r == DequeueScript(Tail(z), at, more) IN
                        [r EXCEPT !.dropped = @ \cup {h}]
                   ELSE [job |-> 0, rest |-> Tail(z), dropped |-> {h}]
              ELSE [job |-> h, rest |-> Tail(z), dropped |-> {}]

\* the job records after a dequeue that popped `job` (0: none) and discarded
\* the expired entries `dropped`: the first is marked processing, the others
\* failed
Marked(job, dropped) ==
    [id \in DOMAIN jobs |->
        IF id = job THEN [jobs[id] EXCEPT !.status = "processing"]
        ELSE IF id \in dropped THEN [jobs[id] EXCEPT !.status = "failed"]
        ELSE jobs[id]]

\* --------------------------------------------------------------- Consumer
\* a consumer without the status check of line 47
ConsumerNeverBusy(st) == FALSE

\* Consumer.process line 47: a dispatch is refused while the status is RUNNING
ConsumerBusy(st) == st = "RUNNING"

\* a consumer without the finally block of Consumer.process
StatusStaysRunning(outcome) == "RUNNING"

\* a consumer that resets its status on success only, not in a finally block
StatusAfterSuccess(outcome) == IF outcome = "done" THEN "SLEEPING" ELSE "RUNNING"

\* Consumer.process lines 74-76: the finally block, whatever the outcome
StatusAfterCallback(outcome) == "SLEEPING"

\* ----------------------------------------------------------- RedisManager
\* the ceiling of the connection pool (redis-manager.ts line 41)
PoolMaxConnections == 10

\* the pool as the constructor builds it: nothing lent, not draining
NewPool(max) == [max |-> max, borrowed |-> 0, draining |-> FALSE]

\* pool.acquire() is granted while fewer than max connections are lent; the
\* caller stays suspended otherwise
CanAcquire(inst) == pool[inst].borrowed < pool[inst].max

\* pool.drain() has been called (RedisManager.close): an acquire() made from
\* now on rejects at once
Draining(inst) == pool[inst].draining

\* getClient has resolved for a task of inst
Acquired(inst) == [pool EXCEPT ![inst].borrowed = @ + 1]

\* releaseClient has run n times for tasks of inst
Released(inst, n) == [pool EXCEPT ![inst].borrowed = @ - n]

\* ------------------------------------------------------ Queue: task control
\* startActiveProcessing lines 81-85: the next consumer of the Map, from
\* position k on, whose status is SLEEPING (0: the loop ends)
NextSleeping(s, k, st) ==
    LET c == {x \in k..Len(regOrder[s]) : st[s][regOrder[s][x]] = "SLEEPING"}
    IN IF c = {} THEN 0 ELSE CHOOSE x \in c : \A y \in c : x <= y

\* processQueueTasks has returned (its finally released the client): the timer
\* callback goes on with the next consumer (whose sweep rejects at getClient
\* when the pool is draining, which ends the callback), the message handler
\* releases its own client and process() returns.  The result is the bag of
\* what remains of the task.
AfterSweep(tk, st) ==
    IF tk.kind = "timer"
    THEN LET k2 == NextSleeping(tk.inst, tk.k + 1, st) IN
         IF k2 = 0 \/ Draining(tk.inst) THEN EmptyBag
         ELSE One(Task("timer", tk.inst, "acquire", regOrder[tk.inst][k2], "", k2))
    ELSE EmptyBag

\* a loop that stays on a group as long as it yields jobs
NextGroupDrain(tk, st) ==
    IF tk.job # 0 THEN One([tk EXCEPT !.pc = "zcard", !.job = 0])
    ELSE IF tk.i < Len(tk.groups)
    THEN One([tk EXCEPT !.i = @ + 1, !.pc = "zcard", !.job = 0])
    ELSE AfterSweep(tk, st)

\* a loop that is left as soon as a group has been dealt with
NextGroupStops(tk, st) == AfterSweep(tk, st)

\* processQueueTasks lines 114-151: `continue`, or the end of the loop body
NextGroup(tk, st) ==
    IF tk.i < Len(tk.groups)
    THEN One([tk EXCEPT !.i = @ + 1, !.pc = "zcard", !.job = 0])
    ELSE AfterSweep(tk, st)

\* task tk has run up to its next await and is now `after` (a bag)
Resume(tk, after) == (tasks (-) One(tk)) (+) after

\* a sweep that never gives its connection back
NoFinally(tk, after) == pool

\* the finally blocks that task tk runs when it becomes `after`: none while
\* its sweep goes on; at the end of the sweep the one of processQueueTasks
\* (line 159) and, in a message handler, the handler's own (line 204)
Finally(tk, after) ==
    IF \E t \in BagToSet(after) : t.pc \in {"smembers", "zcard", "srem", "evalsha", "callback"}
    THEN pool
    ELSE Released(tk.inst, IF tk.kind = "push" THEN 2 ELSE 1)

\* ------------------------------------------------------------------- Init
\* the instances are constructed and initialised (init() has loaded the
\* scripts and started the interval of the subscribers S); the store, with
\* the queues Qs, is empty; every pool has the ceiling max
InitOn(S, Qs, max) ==
    /\ now = 0
    /\ jobs = <<>>
    /\ groupsIndex = [q \in Qs |-> {}]
    /\ zset = [q \in Qs |-> [g \in Groups |-> <<>>]]
    /\ msgs = [s \in S |-> {}]
    /\ scriptShas = [inst \in Publishers \cup S |-> Scripts]
    /\ pool = [inst \in Publishers \cup S |-> NewPool(max)]
    /\ timerOn = S
    /\ regOrder = [s \in S |-> <<>>]
    /\ handler = [s \in S |-> [q \in Qs |-> "none"]]
    /\ status = [s \in S |-> [q \in Qs |-> "NONE"]]
    /\ tasks = EmptyBag
    /\ invoked = <<>>
    /\ handed = <<>>
    /\ rejected = {}
    /\ discarded = {}
    /\ sent = <<>>
    /\ log = {}

InitWith(S) == InitOn(S, Queues, PoolMaxConnections)

Init == InitWith({"sub"})

\* the instances are constructed, init() has not been called
ColdOn(S, max) ==
    /\ now = 0
    /\ jobs = <<>>
    /\ groupsIndex = [q \in Queues |-> {}]
    /\ zset = [q \in Queues |-> [g \in Groups |-> <<>>]]
    /\ msgs = [s \in S |-> {}]
    /\ scriptShas = [inst \in Publishers \cup S |-> {}]
    /\ pool = [inst \in Publishers \cup S |-> NewPool(max)]
    /\ timerOn = {}
    /\ regOrder = [s \in S |-> <<>>]
    /\ handler = [s \in S |-> [q \in Queues |-> "none"]]
    /\ status = [s \in S |-> [q \in Queues |-> "NONE"]]
    /\ tasks = EmptyBag
    /\ invoked = <<>>
    /\ handed = <<>>
    /\ rejected = {}
    /\ discarded = {}
    /\ sent = <<>>
    /\ log = {}

ColdInit(S) == ColdOn(S, PoolMaxConnections)

\* ---------------------------------------------------------------- actions
\* the order in which loadAndRegisterLuaScripts goes through the scripts
ScriptOrder == <<"dequeue", "enqueue", "get_status", "update_status">>

\* the files that can be missing at start-up and the SCRIPT LOAD that can fail
UnreadableSets == {{}, {"dequeue"}, {"enqueue"}}
LoadFaults == {"none", "enqueue"}

\* the scripts loadAndRegisterLuaScripts has cached when it returns or throws:
\* an unreadable file is logged by loadLuaScript, which returns null, and the
\* script is skipped (line 92); a failing SCRIPT LOAD throws and ends the loop
Loaded(unreadable, loadFault) ==
    LET stop == IF loadFault \in Scripts \ unreadable
                THEN CHOOSE k \in DOMAIN ScriptOrder : ScriptOrder[k] = loadFault
                ELSE Len(ScriptOrder) + 1
    IN {ScriptOrder[k] : k \in 1..(stop - 1)} \ unreadable

\* Queue.init with RedisManager.init: the scripts are loaded; when that
\* throws init() rejects, otherwise a subscriber starts its interval
init(inst, unreadable, loadFault) ==
    /\ \A e \in log : ~(e.op = "init" /\ e.inst = inst)
    /\ scriptShas' = [scriptShas EXCEPT ![inst] = @ \cup Loaded(unreadable, loadFault)]
    /\ IF loadFault \in Scripts \ unreadable
       THEN /\ log' = log \cup {Returned("init", inst, "throw", "load", FALSE)}
            /\ UNCHANGED timerOn
       ELSE /\ log' = log \cup {Returned("init", inst, "ok", "", FALSE)}
            /\ timerOn' = IF inst \in Subscribers THEN timerOn \cup {inst} ELSE timerOn
    /\ UNCHANGED <<now, storeVars, msgs, pool, regOrder, handler, status, tasks, invoked,
                   handed, rejected, sent>>

\* time passes, up to max
TickTo(max) ==
    /\ now < max
    /\ now' = now + 1
    /\ UNCHANGED <<storeVars, msgs, scriptShas, pool, timerOn, regOrder, handler, status, tasks,
                   invoked, handed, rejected, sent, log>>

Tick == TickTo(MaxTime)

\* an add() call that admitted a job: its arguments, when it was made and
\* the identity it returned (0: null)
AddCall(q, g, data, o, at, res) ==
    [queue |-> q, group |-> g, data |-> data, options |-> o, at |-> at,
     returned |-> res]

\* an add() that publishes nothing
PublishedNever(inst, q, g) == msgs

\* add lines 258-260: an instance that has a publisherClient (constructor
\* lines 45-47: the publisher role) publishes {queueName, groupName}, which
\* every subscription receives; any other instance publishes nothing
Published(inst, q, g) ==
    IF inst \in Publishers
    THEN [s \in Subscribers |-> msgs[s] \cup {<<q, g>>}]
    ELSE msgs

\* the awaits of add() that can reject: acquiring the pooled client, the
\* enqueue script, the publish
AddFaults == {"none", "acquire", "evalsha", "publish"}

\* Queue.add: the client is acquired outside the try block (line 232), so a
\* failed acquisition (always, on a draining pool) rejects the call; inside it
\* a missing script handle and every rejection are answered with null.  The
\* publish follows the enqueue script, which has committed by then.  The
\* finally block gives the client back before the call returns.
add(inst, q, g, data, o, fault, max) ==
    /\ Len(jobs) < max
    /\ fault = "publish" => inst \in Publishers
    /\ Draining(inst) => fault = "acquire"
    /\ fault # "acquire" => CanAcquire(inst)
    /\ IF fault = "acquire"
       THEN /\ log' = log \cup {Returned("add", inst, "throw", "acquire", FALSE)}
            /\ UNCHANGED <<jobs, zset, groupsIndex, msgs, invoked, handed, sent>>
       ELSE IF "enqueue" \notin scriptShas[inst]
       THEN /\ log' = log \cup {Returned("add", inst, "null", "script", FALSE)}
            /\ UNCHANGED <<jobs, zset, groupsIndex, msgs, invoked, handed, sent>>
       ELSE IF fault = "evalsha"
       THEN /\ log' = log \cup {Returned("add", inst, "null", "evalsha", FALSE)}
            /\ UNCHANGED <<jobs, zset, groupsIndex, msgs, invoked, handed, sent>>
       ELSE LET id == Len(jobs) + 1
                js == Append(jobs, NewJob(q, g, JSONstringify(data), o, now))
            IN /\ jobs' = js
               /\ \E p \in EnqueuePositions(zset[q][g], id, js) :
                      zset' = [zset EXCEPT ![q][g] = InsertAt(@, p, id)]
               /\ groupsIndex' = [groupsIndex EXCEPT ![q] = @ \cup {g}]
               /\ invoked' = Append(invoked, 0)
               /\ handed' = Append(handed, 0)
               /\ IF fault = "publish"
                  THEN /\ log' = log \cup {Returned("add", inst, "null", "publish", TRUE)}
                       /\ sent' = Append(sent, AddCall(q, g, data, o, now, 0))
                       /\ UNCHANGED msgs
                  ELSE /\ msgs' = Published(inst, q, g)
                       /\ sent' = Append(sent, AddCall(q, g, data, o, now, id))
                       /\ UNCHANGED log
    /\ UNCHANGED <<now, discarded, scriptShas, pool, timerOn, regOrder, handler, status, tasks,
                   rejected>>

\* a published notification does not reach subscriber s
LoseMessage(s, m) ==
    /\ m \in msgs[s]
    /\ msgs' = [msgs EXCEPT ![s] = @ \ {m}]
    /\ UNCHANGED <<now, storeVars, scriptShas, pool, timerOn, regOrder, handler, status, tasks,
                   invoked, handed, rejected, sent, log>>

\* a registry that accepts a second consumer for a queue
NeverRegistered(inst, q) == FALSE

\* process line 285: this.consumers.has(queueName)
AlreadyRegistered(inst, q) == status[inst][q] # "NONE"

\* a registration that leaves the pending jobs to the timer
processNoSweep(inst, q, cb) ==
    /\ inst \in Subscribers
    /\ ~AlreadyRegistered(inst, q)
    /\ status' = [status EXCEPT ![inst][q] = "SLEEPING"]
    /\ regOrder' = [regOrder EXCEPT ![inst] = Append(@, q)]
    /\ handler' = [handler EXCEPT ![inst][q] = cb]
    /\ UNCHANGED <<now, storeVars, msgs, scriptShas, pool, timerOn, tasks, invoked, handed,
                   rejected, sent, log>>

\* Queue.process: throws on a publisher and on a queue that has a consumer;
\* otherwise registers the consumer and starts the registration sweep, whose
\* getClient (line 96, outside the try block) rejects on a draining pool
process(inst, q, cb) ==
    IF inst \notin Subscribers
    THEN /\ log' = log \cup {Returned("process", inst, "throw", "role", FALSE)}
         /\ UNCHANGED <<now, storeVars, msgs, scriptShas, pool, timerOn, regOrder, handler,
                        status, tasks, invoked, handed, rejected, sent>>
    ELSE IF AlreadyRegistered(inst, q)
    THEN /\ log' = log \cup {Returned("process", inst, "throw", "exists", FALSE)}
         /\ UNCHANGED <<now, storeVars, msgs, scriptShas, pool, timerOn, regOrder, handler,
                        status, tasks, invoked, handed, rejected, sent>>
    ELSE /\ BagCardinality(tasks) < MaxTasks
         /\ status' = [status EXCEPT ![inst][q] = "SLEEPING"]
         /\ regOrder' = [regOrder EXCEPT ![inst] = Append(@, q)]
         /\ handler' = [handler EXCEPT ![inst][q] = cb]
         /\ IF Draining(inst)
            THEN /\ log' = log \cup {Returned("process", inst, "throw", "acquire", FALSE)}
                 /\ UNCHANGED tasks
            ELSE /\ tasks' = tasks (+) One(Task("reg", inst, "acquire", q, "", 0))
                 /\ UNCHANGED log
         /\ UNCHANGED <<now, storeVars, msgs, scriptShas, pool, timerOn, invoked, handed,
                        rejected, sent>>

\* the setInterval callback of startActiveProcessing fires
TimerTick(s) ==
    /\ s \in timerOn
    /\ BagCardinality(tasks) < MaxTasks
    /\ LET k == NextSleeping(s, 1, status) IN
       /\ k # 0
       /\ tasks' = tasks (+) One(Task("timer", s, "acquire", regOrder[s][k], "", k))
    /\ UNCHANGED <<now, storeVars, msgs, scriptShas, pool, timerOn, regOrder, handler, status,
                   invoked, handed, rejected, sent, log>>

\* a handler that does not look at the consumer
OnMessageUnguarded(s, m) ==
    /\ ~Draining(s)
    /\ m \in msgs[s]
    /\ msgs' = [msgs EXCEPT ![s] = @ \ {m}]
    /\ BagCardinality(tasks) < MaxTasks
    /\ tasks' = tasks (+) One(Task("push", s, "pushAcquire", m[1], m[2], 0))
    /\ UNCHANGED <<now, storeVars, scriptShas, pool, timerOn, regOrder, handler, status,
                   invoked, handed, rejected, sent, log>>

\* the 'message' handler of setupSubscriber, up to its first await; close()
\* disconnects the subscription in the step in which it starts the drain
OnMessage(s, m) ==
    /\ ~Draining(s)
    /\ m \in msgs[s]
    /\ msgs' = [msgs EXCEPT ![s] = @ \ {m}]
    /\ IF status[s][m[1]] = "SLEEPING"
       THEN /\ BagCardinality(tasks) < MaxTasks
            /\ tasks' = tasks (+) One(Task("push", s, "pushAcquire", m[1], m[2], 0))
       ELSE UNCHANGED tasks
    /\ UNCHANGED <<now, storeVars, scriptShas, pool, timerOn, regOrder, handler, status,
                   invoked, handed, rejected, sent, log>>

\* setupSubscriber line 195: the handler has its client and asks for ZCARD
PushGetClient(tk) ==
    /\ tk.pc = "pushAcquire"
    /\ CanAcquire(tk.inst)
    /\ pool' = Acquired(tk.inst)
    /\ tasks' = Resume(tk, One([tk EXCEPT !.pc = "pushZcard"]))
    /\ UNCHANGED <<now, storeVars, msgs, scriptShas, timerOn, regOrder, handler, status,
                   invoked, handed, rejected, sent, log>>

\* setupSubscriber lines 198-205: the sweep starts if the group has jobs,
\* with the handler's client still lent (on a draining pool the sweep's
\* getClient rejects); otherwise the finally block gives the client back
PushZcard(tk) ==
    /\ tk.pc = "pushZcard"
    /\ IF Len(zset[tk.queue][tk.group]) > 0 /\ ~Draining(tk.inst)
       THEN /\ tasks' = Resume(tk, One([tk EXCEPT !.pc = "acquire"]))
            /\ UNCHANGED pool
       ELSE /\ tasks' = Resume(tk, EmptyBag)
            /\ pool' = Released(tk.inst, 1)
    /\ UNCHANGED <<now, storeVars, msgs, scriptShas, timerOn, regOrder, handler, status,
                   invoked, handed, rejected, sent, log>>

\* processQueueTasks lines 96-107: the client is acquired, the script handle
\* is looked up and SMEMBERS is sent; without the handle the client goes back
\* at once (and a message handler gives back its own)
GetClient(tk) ==
    /\ tk.pc = "acquire"
    /\ CanAcquire(tk.inst)
    /\ IF "dequeue" \notin scriptShas[tk.inst]
       THEN /\ tasks' = Resume(tk, AfterSweep(tk, status))
            /\ pool' = Released(tk.inst, IF tk.kind = "push" THEN 1 ELSE 0)
       ELSE /\ tasks' = Resume(tk, One([tk EXCEPT !.pc = "smembers"]))
            /\ pool' = Acquired(tk.inst)
    /\ UNCHANGED <<now, storeVars, msgs, scriptShas, timerOn, regOrder, handler, status,
                   invoked, handed, rejected, sent, log>>

\* processQueueTasks lines 107-116: the group index as SMEMBERS returned it
Smembers(tk) ==
    /\ tk.pc = "smembers"
    /\ \E perm \in Perms(groupsIndex[tk.queue]) :
           LET after == IF Len(perm) = 0
                        THEN AfterSweep(tk, status)
                        ELSE One([tk EXCEPT !.groups = perm, !.i = 1, !.pc = "zcard"])
           IN /\ tasks' = Resume(tk, after)
              /\ pool' = Finally(tk, after)
    /\ UNCHANGED <<now, storeVars, msgs, scriptShas, timerOn, regOrder, handler, status,
                   invoked, handed, rejected, sent, log>>

\* a loop that runs the dequeue script on every group, empty or not
ZcardAlwaysPops(tk) ==
    /\ tk.pc = "zcard"
    /\ tasks' = Resume(tk, One([tk EXCEPT !.pc = "evalsha"]))
    /\ UNCHANGED <<now, storeVars, msgs, scriptShas, pool, timerOn, regOrder, handler, status,
                   invoked, handed, rejected, sent, log>>

\* processQueueTasks lines 116-124: the job count of the group decides
\* between SREM and the dequeue script
Zcard(tk) ==
    /\ tk.pc = "zcard"
    /\ tasks' = Resume(tk, One([tk EXCEPT !.pc =
                   IF Len(zset[tk.queue][tk.groups[tk.i]]) = 0
                   THEN "srem" ELSE "evalsha"]))
    /\ UNCHANGED <<now, storeVars, msgs, scriptShas, pool, timerOn, regOrder, handler, status,
                   invoked, handed, rejected, sent, log>>

\* a pruning whose key does not name the queue
SremAnyQueue(tk) ==
    /\ tk.pc = "srem"
    /\ groupsIndex' = [q \in DOMAIN groupsIndex |-> groupsIndex[q] \ {tk.groups[tk.i]}]
    /\ tasks' = Resume(tk, NextGroup(tk, status))
    /\ pool' = Finally(tk, NextGroup(tk, status))
    /\ UNCHANGED <<now, jobs, zset, discarded, msgs, scriptShas, timerOn, regOrder, handler,
                   status, invoked, handed, rejected, sent, log>>

\* processQueueTasks lines 119-120: the group leaves the index
Srem(tk) ==
    /\ tk.pc = "srem"
    /\ groupsIndex' = [groupsIndex EXCEPT ![tk.queue] = @ \ {tk.groups[tk.i]}]
    /\ tasks' = Resume(tk, NextGroup(tk, status))
    /\ pool' = Finally(tk, NextGroup(tk, status))
    /\ UNCHANGED <<now, jobs, zset, discarded, msgs, scriptShas, timerOn, regOrder, handler,
                   status, invoked, handed, rejected, sent, log>>

\* a job object that carries the stored text instead of the parsed value
JobDataUnparsed(id) ==
    [id |-> id, data |-> jobs[id].data, groupName |-> jobs[id].group]

\* processQueueTasks lines 129-140: the job object built from the reply of
\* the dequeue script
JobData(id) ==
    [id |-> id, data |-> JSONparse(jobs[id].data), groupName |-> jobs[id].group]

\* processQueueTasks line 124 when the awaited evalsha rejects: the call is
\* outside the inner try block, so the catch of line 152 ends the sweep
EvalshaRaises(tk) ==
    /\ tk.pc = "evalsha"
    /\ tasks' = Resume(tk, AfterSweep(tk, status))
    /\ pool' = Finally(tk, AfterSweep(tk, status))
    /\ UNCHANGED <<now, storeVars, msgs, scriptShas, timerOn, regOrder, handler, status,
                   invoked, handed, rejected, sent, log>>

\* processQueueTasks lines 124-150 with Consumer.process lines 47-57: the
\* dequeue script runs; a popped job whose payload does not parse is logged
\* and skipped (line 144); otherwise it is dispatched to the consumer, which
\* throws when it is RUNNING (the error is logged at line 146) and otherwise
\* becomes RUNNING and invokes the callback
Evalsha(tk) ==
    LET s == tk.inst
        q == tk.queue
        g == tk.groups[tk.i]
    IN
    /\ tk.pc = "evalsha"
    /\ \E more \in BOOLEAN :
         LET r == DequeueScript(zset[q][g], now, more)
             tk2 == [tk EXCEPT !.job = r.job, !.got = Append(@, r.job)]
         IN
         /\ zset' = [zset EXCEPT ![q][g] = r.rest]
         /\ jobs' = Marked(r.job, r.dropped)
         /\ discarded' = discarded \cup r.dropped
         /\ handed' = IF r.job = 0 THEN handed ELSE [handed EXCEPT ![r.job] = @ + 1]
         /\ IF r.job = 0
            THEN /\ tasks' = Resume(tk, NextGroup([tk EXCEPT !.idle = @ \cup {g}], status))
                 /\ pool' = Finally(tk, NextGroup(tk, status))
                 /\ UNCHANGED <<status, invoked, rejected>>
            ELSE IF JobData(r.job).data = "SyntaxError"
            THEN /\ tasks' = Resume(tk, NextGroup(tk2, status))
                 /\ pool' = Finally(tk, NextGroup(tk, status))
                 /\ UNCHANGED <<status, invoked, rejected>>
            ELSE IF ConsumerBusy(status[s][q])
            THEN /\ rejected' = rejected \cup {r.job}
                 /\ tasks' = Resume(tk, NextGroup(tk2, status))
                 /\ pool' = Finally(tk, NextGroup(tk, status))
                 /\ UNCHANGED <<status, invoked>>
            ELSE /\ status' = [status EXCEPT ![s][q] = "RUNNING"]
                 /\ invoked' = [invoked EXCEPT ![r.job] = @ + 1]
                 /\ tasks' = Resume(tk, One([tk2 EXCEPT !.pc = "callback"]))
                 /\ UNCHANGED <<rejected, pool>>
    /\ UNCHANGED <<now, groupsIndex, msgs, scriptShas, timerOn, regOrder, handler,
                   sent, log>>

\* a core that puts a job whose callback failed back into its group
CallbackRequeues(tk, outcome) ==
    LET st == [status EXCEPT ![tk.inst][tk.queue] = StatusAfterCallback(outcome)]
    IN
    /\ tk.pc = "callback"
    /\ status' = st
    /\ zset' = IF outcome = "done" THEN zset
               ELSE [zset EXCEPT ![tk.queue][jobs[tk.job].group] = <<tk.job>> \o @]
    /\ tasks' = Resume(tk, NextGroup(tk, st))
    /\ pool' = Finally(tk, NextGroup(tk, st))
    /\ UNCHANGED <<now, jobs, groupsIndex, discarded, msgs, scriptShas, timerOn, regOrder,
                   handler, invoked, handed, rejected, sent, log>>

\* Consumer.process lines 57-77 and processQueueTasks lines 144-151: the
\* callback signals completion (or threw); the finally block resets the
\* status.  Nothing is reported to the store: update_status is loaded by
\* init() and invoked nowhere.
Callback(tk, outcome) ==
    LET st == [status EXCEPT ![tk.inst][tk.queue] = StatusAfterCallback(outcome)]
    IN
    /\ tk.pc = "callback"
    /\ status' = st
    /\ tasks' = Resume(tk, NextGroup(tk, st))
    /\ pool' = Finally(tk, NextGroup(tk, st))
    /\ UNCHANGED <<now, storeVars, msgs, scriptShas, timerOn, regOrder, handler,
                   invoked, handed, rejected, sent, log>>

\* a close() that leaves the interval running
closeKeepsTimer(inst) ==
    /\ ~Draining(inst)
    /\ pool' = [pool EXCEPT ![inst].draining = TRUE]
    /\ UNCHANGED <<now, storeVars, msgs, scriptShas, timerOn, regOrder, handler, status,
                   tasks, invoked, handed, rejected, sent, log>>

\* Queue.close with RedisManager.close: the interval is cleared, the
\* subscription and the publish connection are disconnected and the pool
\* starts to drain, all before the first await; the drain then waits for the
\* connections that are lent.  Tasks in progress are left alone.
close(inst) ==
    /\ ~Draining(inst)
    /\ timerOn' = timerOn \ {inst}
    /\ pool' = [pool EXCEPT ![inst].draining = TRUE]
    /\ UNCHANGED <<now, storeVars, msgs, scriptShas, regOrder, handler, status, tasks,
                   invoked, handed, rejected, sent, log>>

\* ---------------------------------------------------------- specifications
\* Spec: jobs admitted without options; the push path, the pull path and the
\* registration sweep run concurrently on one subscriber
Next ==
    \/ \E inst \in Instances, q \in Queues, g \in Groups :
           add(inst, q, g, "object", NoOptions, "none", MaxJobs)
    \/ \E s \in Subscribers, m \in Queues \X Groups : LoseMessage(s, m)
    \/ \E s \in Subscribers, m \in Queues \X Groups : OnMessage(s, m)
    \/ \E s \in Subscribers, q \in Queues :
           ~AlreadyRegistered(s, q) /\ process(s, q, "cb1")
    \/ \E s \in Subscribers : TimerTick(s)
    \/ \E tk \in BagToSet(tasks) : PushGetClient(tk)
    \/ \E tk \in BagToSet(tasks) : PushZcard(tk)
    \/ \E tk \in BagToSet(tasks) : GetClient(tk)
    \/ \E tk \in BagToSet(tasks) : Smembers(tk)
    \/ \E tk \in BagToSet(tasks) : Zcard(tk)
    \/ \E tk \in BagToSet(tasks) : Srem(tk)
    \/ \E tk \in BagToSet(tasks) : Evalsha(tk)
    \/ \E tk \in BagToSet(tasks), outcome \in Outcomes : Callback(tk, outcome)

Spec == Init /\ [][Next]_vars

\* the pull path alone: jobs are admitted on the subscriber, which publishes
\* nothing, so sweeps are started only by process() and by the timer
PullSteps ==
    \/ \E s \in Subscribers, q \in Queues :
           ~AlreadyRegistered(s, q) /\ process(s, q, "cb1")
    \/ \E s \in Subscribers : TimerTick(s)
    \/ \E tk \in BagToSet(tasks) : GetClient(tk)
    \/ \E tk \in BagToSet(tasks) : Smembers(tk)
    \/ \E tk \in BagToSet(tasks) : Zcard(tk)
    \/ \E tk \in BagToSet(tasks) : Srem(tk)
    \/ \E tk \in BagToSet(tasks) : Evalsha(tk)
    \/ \E tk \in BagToSet(tasks), outcome \in Outcomes : Callback(tk, outcome)

NextPull(max, gs, os) ==
    \/ \E s \in Subscribers, q \in Queues, g \in gs, o \in os :
           add(s, q, g, "object", o, "none", max)
    \/ PullSteps

\* TwoSpec: two subscriber instances sweep the same store
NextTwo == NextPull(MaxRaceJobs, Groups, {NoOptions})
TwoSpec == InitWith({"sub", "sub2"}) /\ [][NextTwo]_vars

\* PrioSpec: jobs of two priorities in one group
NextPrio == NextPull(MaxJobs, {"g1"}, {NoOptions, LowPriority})
PrioSpec == Init /\ [][NextPrio]_vars

\* TimedSpec: the pull path with the clock, delays and TTLs
NextTimed ==
    \/ Tick
    \/ NextPull(MaxTimedJobs, Groups, IAddJobOptions)

TimedSpec == Init /\ [][NextTimed]_vars

\* FifoSpec: jobs without options admitted to one group one after another,
\* each at a later reading of the clock than the one before
FreshTime == \A id \in 1..Len(jobs) : jobs[id].notBefore < now

NextFifo ==
    \/ TickTo(MaxFifoTime)
    \/ \E s \in Subscribers, q \in Queues :
           FreshTime /\ add(s, q, "g1", "object", NoOptions, "none", MaxJobs)
    \/ PullSteps

FifoSpec == Init /\ [][NextFifo]_vars

\* RoundTripSpec: jobs admitted with each kind of payload
NextRoundTrip ==
    \/ \E s \in Subscribers, q \in Queues, g \in Groups, data \in Payloads :
           add(s, q, g, data, NoOptions, "none", MaxRaceJobs)
    \/ PullSteps

RoundTripSpec == Init /\ [][NextRoundTrip]_vars

\* FaultSpec: the publisher's add() with each await that can reject, and
\* sweeps in which the dequeue script can raise
NextFault ==
    \/ \E inst \in Publishers, q \in Queues, g \in Groups, fault \in AddFaults :
           add(inst, q, g, "object", NoOptions, fault, MaxRaceJobs)
    \/ \E tk \in BagToSet(tasks) : EvalshaRaises(tk)
    \/ PullSteps

FaultSpec == Init /\ [][NextFault]_vars

\* ColdSpec: the instances start uninitialised; init() finds every script, or
\* misses a file, or has a SCRIPT LOAD rejected
NextCold ==
    \/ \E inst \in Instances, unreadable \in UnreadableSets, loadFault \in LoadFaults :
           init(inst, unreadable, loadFault)
    \/ NextPull(MaxRaceJobs, Groups, {NoOptions})

ColdSpec == ColdInit({"sub"}) /\ [][NextCold]_vars

\* BalanceSpec: every way of borrowing a connection on a pool with a low
\* ceiling: init() with its faults, add() with its faults, the push path, the
\* pull path, a dequeue script that raises, and close(); one group
NextBalance ==
    \/ \E inst \in Instances, unreadable \in UnreadableSets, loadFault \in LoadFaults :
           init(inst, unreadable, loadFault)
    \/ \E inst \in Publishers, q \in Queues, fault \in AddFaults :
           add(inst, q, "g1", "object", NoOptions, fault, MaxRaceJobs)
    \/ \E s \in Subscribers, q \in Queues : OnMessage(s, <<q, "g1">>)
    \/ \E inst \in Instances : close(inst)
    \/ \E tk \in BagToSet(tasks) : PushGetClient(tk)
    \/ \E tk \in BagToSet(tasks) : PushZcard(tk)
    \/ \E tk \in BagToSet(tasks) : EvalshaRaises(tk)
    \/ PullSteps

BalanceSpec == ColdOn({"sub"}, SmallPool) /\ [][NextBalance]_vars

\* RegSpec: jobs are queued, with delays and priorities, before any consumer
\* exists; then process() is called on the publisher and on two subscribers,
\* also for a queue that has a consumer.  No timer fires and no notification
\* is published: only registration sweeps run.
NoConsumer == \A s \in Subscribers, q \in Queues : status[s][q] = "NONE"

NextReg ==
    \/ NoConsumer /\ TickTo(MaxTime)
    \/ \E s \in Subscribers, q \in Queues, g \in Groups,
          o \in {NoOptions, LowPriority, Delayed} :
           NoConsumer /\ add(s, q, g, "object", o, "none", MaxRaceJobs)
    \/ \E inst \in Instances, q \in Queues, cb \in Callbacks : process(inst, q, cb)
    \/ \E tk \in BagToSet(tasks) : GetClient(tk)
    \/ \E tk \in BagToSet(tasks) : Smembers(tk)
    \/ \E tk \in BagToSet(tasks) : Zcard(tk)
    \/ \E tk \in BagToSet(tasks) : Srem(tk)
    \/ \E tk \in BagToSet(tasks) : Evalsha(tk)
    \/ \E tk \in BagToSet(tasks), outcome \in Outcomes : Callback(tk, outcome)

RegSpec == InitWith({"sub", "sub2"}) /\ [][NextReg]_vars

\* NotifySpec: every job is admitted by the publisher and every notification
\* reaches the subscriber, whose timer and registration sweep run as well
NextNotify ==
    \/ \E inst \in Publishers, q \in Queues, g \in Groups :
           add(inst, q, g, "object", NoOptions, "none", MaxJobs)
    \/ \E s \in Subscribers, m \in Queues \X Groups : OnMessage(s, m)
    \/ \E tk \in BagToSet(tasks) : PushGetClient(tk)
    \/ \E tk \in BagToSet(tasks) : PushZcard(tk)
    \/ PullSteps

NotifySpec == Init /\ [][NextNotify]_vars

\* RoleSpec: jobs are admitted on the publisher and on the subscriber; no
\* notification is taken up, so every one published stays observable
NextRole ==
    \/ \E inst \in Instances, q \in Queues, g \in Groups :
           add(inst, q, g, "object", NoOptions, "none", MaxRaceJobs)
    \/ PullSteps

RoleSpec == Init /\ [][NextRole]_vars

\* PoolSpec: NotifySpec on a pool whose ceiling equals the number of message
\* handlers that can be alive at once
NextPool ==
    \/ \E inst \in Publishers, q \in Queues, g \in Groups :
           add(inst, q, g, "object", NoOptions, "none", MaxRaceJobs)
    \/ \E s \in Subscribers, m \in Queues \X Groups : OnMessage(s, m)
    \/ \E tk \in BagToSet(tasks) : PushGetClient(tk)
    \/ \E tk \in BagToSet(tasks) : PushZcard(tk)
    \/ PullSteps

PoolSpec == InitOn({"sub"}, Queues, SmallPool) /\ [][NextPool]_vars

\* IsoSpec: two queues with the same group names on one store; the publisher
\* admits to both and the subscriber registers a consumer for each
TwoQueues == {"q1", "q2"}

NextIso ==
    \/ \E inst \in Publishers, q \in TwoQueues, g \in Groups :
           add(inst, q, g, "object", NoOptions, "none", MaxRaceJobs)
    \/ \E s \in Subscribers, m \in TwoQueues \X Groups : OnMessage(s, m)
    \/ \E s \in Subscribers, q \in TwoQueues :
           ~AlreadyRegistered(s, q) /\ process(s, q, "cb1")
    \/ \E s \in Subscribers : TimerTick(s)
    \/ \E tk \in BagToSet(tasks) : PushGetClient(tk)
    \/ \E tk \in BagToSet(tasks) : PushZcard(tk)
    \/ \E tk \in BagToSet(tasks) : GetClient(tk)
    \/ \E tk \in BagToSet(tasks) : Smembers(tk)
    \/ \E tk \in BagToSet(tasks) : Zcard(tk)
    \/ \E tk \in BagToSet(tasks) : Srem(tk)
    \/ \E tk \in BagToSet(tasks) : Evalsha(tk)
    \/ \E tk \in BagToSet(tasks), outcome \in Outcomes : Callback(tk, outcome)

IsoSpec == InitOn({"sub"}, TwoQueues, PoolMaxConnections) /\ [][NextIso]_vars

\* ShutSpec: the push path, the pull path and the registration sweep, with
\* close() called on any instance at any moment
NextShut ==
    \/ \E inst \in Instances, q \in Queues, g \in Groups :
           add(inst, q, g, "object", NoOptions, "none", MaxRaceJobs)
    \/ \E s \in Subscribers, m \in Queues \X Groups : OnMessage(s, m)
    \/ \E s \in Subscribers, q \in Queues :
           ~AlreadyRegistered(s, q) /\ process(s, q, "cb1")
    \/ \E s \in Subscribers : TimerTick(s)
    \/ \E inst \in Instances : close(inst)
    \/ \E tk \in BagToSet(tasks) : PushGetClient(tk)
    \/ \E tk \in BagToSet(tasks) : PushZcard(tk)
    \/ \E tk \in BagToSet(tasks) : GetClient(tk)
    \/ \E tk \in BagToSet(tasks) : Smembers(tk)
    \/ \E tk \in BagToSet(tasks) : Zcard(tk)
    \/ \E tk \in BagToSet(tasks) : Srem(tk)
    \/ \E tk \in BagToSet(tasks) : Evalsha(tk)
    \/ \E tk \in BagToSet(tasks), outcome \in Outcomes : Callback(tk, outcome)

ShutSpec == Init /\ [][NextShut]_vars

\* LiveSpec: the pull path when the timer keeps firing, the store answers
\* every call and every callback signals completion
NextLive == NextPull(MaxRaceJobs, Groups, {NoOptions})

Fairness ==
    /\ WF_vars(\E s \in Subscribers : TimerTick(s))
    /\ WF_vars(\E tk \in BagToSet(tasks) : GetClient(tk))
    /\ WF_vars(\E tk \in BagToSet(tasks) : Smembers(tk))
    /\ WF_vars(\E tk \in BagToSet(tasks) : Zcard(tk))
    /\ WF_vars(\E tk \in BagToSet(tasks) : Srem(tk))
    /\ WF_vars(\E tk \in BagToSet(tasks) : Evalsha(tk))
    /\ WF_vars(\E tk \in BagToSet(tasks), outcome \in Outcomes : Callback(tk, outcome))

LiveSpec == Init /\ [][NextLive]_vars /\ Fairness

\* ----------------------------------------------------------------- claims
Admitted == 1..Len(jobs)
InStore(id) == id \in Range(zset[jobs[id].queue][jobs[id].group])
Consumers == {c \in Subscribers \X Queues : status[c[1]][c[2]] # "NONE"}

\* C1: a consumer never has more than one processing callback in flight,
\* whichever of the push, pull and registration sweeps dispatch to it.
C1_AtMostOneInFlight ==
    \A c \in Consumers : Count(InFlight(c[1], c[2])) <= 1

\* a second sweep had a job refused while the first one's callback is in flight
C1_Witness ==
    \E c \in Consumers :
        /\ Count(InFlight(c[1], c[2])) = 1
        /\ \E tk \in InFlight(c[1], c[2]) : rejected \ {tk.job} # {}
        /\ Count(Sweeps(c[1], c[2])) = 2

\* C2: a job whose dispatch was refused because the consumer was RUNNING has
\* not had its callback invoked and is still parked in its group's collection.
C2_RejectedStaysParked ==
    \A id \in rejected : invoked[id] = 0 /\ InStore(id)

\* C6: every group whose ordered collection holds a job is in the group index
\* of its queue.
C6_NonEmptyGroupIndexed ==
    \A q \in Queues, g \in Groups : zset[q][g] # <<>> => g \in groupsIndex[q]

\* C7: at most one dequeue sweep is in progress for a consumer at any time.
C7_OneSweepPerConsumer ==
    \A c \in Consumers : Count(Sweeps(c[1], c[2])) <= 1

\* C8: a registered consumer is RUNNING exactly while one of its callbacks is
\* in flight and SLEEPING otherwise: it starts SLEEPING, a dispatch makes it
\* RUNNING, every completion (done, done(err), throw) makes it SLEEPING again
\* and a refused dispatch leaves the status alone.
C8_RunningIffInFlight ==
    \A c \in Consumers :
        /\ status[c[1]][c[2]] \in {"SLEEPING", "RUNNING"}
        /\ status[c[1]][c[2]] = "RUNNING" <=> InFlight(c[1], c[2]) # {}

\* the consumer is SLEEPING again after a callback completed, and a dispatch
\* had been refused while it ran
C8_Witness ==
    \E c \in Consumers :
        /\ status[c[1]][c[2]] = "SLEEPING"
        /\ rejected # {}
        /\ \E id \in Admitted : invoked[id] = 1 /\ jobs[id].queue = c[2]

\* the groups a sweep has popped a job from, in order
GotGroups(tk) == [x \in DOMAIN tk.got |-> jobs[tk.got[x]].group]

C3_NoAdmittedJobLost ==
    \A id \in Admitted :
        InStore(id) \/ invoked[id] >= 1 \/ Expired(jobs[id], now)

\* C4: an eligible, unexpired job in a queue that has a registered consumer
\* eventually has its callback invoked, without any notification.
C4_PullBackstop ==
    \A id \in 1..MaxRaceJobs :
        (/\ id \in Admitted
         /\ InStore(id)
         /\ Eligible(jobs[id], now) /\ ~Expired(jobs[id], now)
         /\ \E s \in Subscribers : status[s][jobs[id].queue] # "NONE")
        ~> (id \in Admitted /\ invoked[id] >= 1)

\* C5: the dequeue script hands a job to at most one sweep, of whichever
\* instance, and no job's callback is invoked more than once.
C5_HandedOnce ==
    \A id \in Admitted :
        /\ handed[id] <= 1
        /\ invoked[id] <= handed[id]
        /\ handed[id] = 1 => ~InStore(id)

\* two instances swept the same group at once and were handed different jobs
C5_Witness ==
    \E t1, t2 \in BagToSet(tasks) :
        /\ t1.inst # t2.inst
        /\ t1.pc = "callback" /\ t2.pc = "callback"
        /\ t1.job # t2.job
        /\ jobs[t1.job].group = jobs[t2.job].group

\* C10: when a job's callback is invoked, every job of the same group with a
\* lower priority value that is admitted, eligible and unexpired has had its
\* callback invoked before.
C10_PriorityOrder ==
    [][\A b \in Admitted :
          (invoked[b] = 0 /\ invoked'[b] = 1) =>
              \A a \in Admitted :
                  (/\ jobs[a].queue = jobs[b].queue
                   /\ jobs[a].group = jobs[b].group
                   /\ jobs[a].priority < jobs[b].priority
                   /\ Eligible(jobs[a], now) /\ ~Expired(jobs[a], now))
                  => invoked[a] >= 1]_vars

\* C11: jobs admitted without options to one group are all delivered, in
\* ascending admission order: when a job's callback is invoked for the first
\* time, every job admitted to the group before it has had its callback invoked.
C11_FifoDelivery ==
    [][\A b \in Admitted :
          (invoked[b] = 0 /\ invoked'[b] = 1) =>
              \A a \in Admitted :
                  (/\ a < b
                   /\ jobs[a].queue = jobs[b].queue
                   /\ jobs[a].group = jobs[b].group)
                  => invoked[a] >= 1]_vars

\* C12: a job admitted with delay D is not delivered before admission time
\* + D: until then no dequeue hands it out, no callback is invoked with it
\* and it stays in its group's collection, whatever sweeps run.
C12_DelayEnforced ==
    \A id \in Admitted :
        now < sent[id].at + sent[id].options.delay =>
            handed[id] = 0 /\ invoked[id] = 0 /\ InStore(id)

\* a sweep visited the group of a delayed job before its time, got nothing
\* and went on; the job is still the best-ranked entry of its group
C12_Witness ==
    \E id \in Admitted, tk \in BagToSet(tasks) :
        /\ sent[id].options.delay > 0
        /\ now < sent[id].at + sent[id].options.delay
        /\ jobs[id].group \in tk.idle
        /\ InStore(id) /\ Head(zset[jobs[id].queue][jobs[id].group]) = id

\* C13: a job admitted with ttl T > 0 that is still in its collection at
\* admission time + T is never handed out nor delivered: it stays in the
\* collection until a dequeue discards it; a discarded job had a ttl, is out of
\* the collection and has had no callback invoked (a job with ttl 0 is never
\* discarded).
C13_TtlDiscard ==
    /\ [](\A id \in discarded :
            sent[id].options.ttl > 0 /\ invoked[id] = 0 /\ ~InStore(id))
    /\ [][\A id \in Admitted :
            (/\ sent[id].options.ttl > 0
             /\ now >= sent[id].at + sent[id].options.ttl
             /\ InStore(id))
            => /\ handed'[id] = handed[id]
               /\ invoked'[id] = invoked[id]
               /\ InStore(id)' \/ id \in discarded']_vars

\* a job whose ttl elapsed in the collection was discarded by a sweep that
\* then delivered another job
C13_Witness ==
    \E id \in discarded, tk \in BagToSet(tasks) :
        /\ tk.pc = "callback"
        /\ now >= sent[id].at + sent[id].options.ttl
        /\ handed[id] = 0

\* the job object the callback was invoked with matches add() call n: the
\* identity add() returned, the queue and the group name
HandedFrom(tk, n) ==
    /\ sent[n].returned = JobData(tk.job).id
    /\ sent[n].queue = tk.queue
    /\ sent[n].group = JobData(tk.job).groupName

\* C14, as stated: the job handed to a callback carries the payload P that
\* was passed to add(), the group name supplied and the identity returned.
C14_RoundTrip ==
    \A tk \in BagToSet(tasks) :
        tk.pc = "callback" =>
            \E n \in DOMAIN sent :
                HandedFrom(tk, n) /\ JobData(tk.job).data = sent[n].data

\* C14, amended: the same for every payload that JSON represents exactly
\* (JSON.parse(JSON.stringify(P)) equals P); any other payload arrives as
\* what its JSON text parses to.
C14_RoundTripJson ==
    \A tk \in BagToSet(tasks) :
        tk.pc = "callback" =>
            \E n \in DOMAIN sent :
                /\ HandedFrom(tk, n)
                /\ JobData(tk.job).data = JSONparse(JSONstringify(sent[n].data))
                /\ JSONparse(JSONstringify(sent[n].data)) = sent[n].data
                       => JobData(tk.job).data = sent[n].data

\* a callback is running with a job that was admitted with a JSON object,
\* after a job with another payload was admitted
C14_Witness ==
    \E tk \in BagToSet(tasks), n \in DOMAIN sent :
        /\ tk.pc = "callback"
        /\ sent[n].returned = tk.job
        /\ sent[n].data = "object" /\ JobData(tk.job).data = "object"
        /\ \E k \in DOMAIN sent : sent[k].data = "NaN"

\* C15: add() never raises: whatever fails, the call returns null.
C15_AddNeverRaises ==
    \A e \in log : e.op = "add" => e.res = "null"

\* C16: an add() that returns null has admitted nothing: the step in which it
\* returns leaves every group collection, the group index and the job records
\* as they were, and every job that was admitted had its identity returned.
C16_NullLeavesNoState ==
    /\ [](\A n \in DOMAIN sent : sent[n].returned # 0)
    /\ [][(\E e \in log' \ log : e.op = "add" /\ e.res = "null")
            => zset' = zset /\ groupsIndex' = groupsIndex /\ jobs' = jobs]_vars

\* C17: an init() that completes has cached the handle of every named script,
\* and after an init() that failed the pull timer is not running.
C17_InitAllOrNothing ==
    \A e \in log :
        e.op = "init" =>
            /\ e.res = "ok" => scriptShas[e.inst] = Scripts
            /\ e.res = "throw" => e.inst \notin timerOn

\* C20: a sweep whose pop of one group fails goes on with the groups that
\* remain: a sweep that is at the pop of a group, with groups still to visit,
\* is still in progress after the step, at that group or at the next one.
C20_SweepSurvivesPopFailure ==
    [][\A tk \in BagToSet(tasks) :
          (tk.pc = "evalsha" /\ tk.i < Len(tk.groups)) =>
              \E t2 \in BagToSet(tasks') :
                  /\ t2.kind = tk.kind /\ t2.inst = tk.inst /\ t2.queue = tk.queue
                  /\ t2.groups = tk.groups
                  /\ t2.i \in {tk.i, tk.i + 1}]_vars

\* C18: an instance keeps at most one consumer per queue; a registered
\* consumer keeps its callback; a process() call that fails (publisher role,
\* queue already registered) leaves the registry, every consumer's callback
\* and status, and the running sweeps as they were.
C18_OneConsumerPerQueue ==
    /\ [](\A s \in Subscribers : \A x, y \in DOMAIN regOrder[s] :
            x # y => regOrder[s][x] # regOrder[s][y])
    /\ [][\A s \in Subscribers, q \in Queues :
            handler[s][q] # "none" => handler'[s][q] = handler[s][q]]_vars
    /\ [][(\E e \in log' \ log : e.op = "process" /\ e.res = "throw")
            => UNCHANGED <<regOrder, handler, status, tasks>>]_vars

\* process() was refused on the publisher and on a queue whose consumer,
\* registered with cb1, is running a job
C18_Witness ==
    /\ \E e \in log : e.op = "process" /\ e.cause = "role"
    /\ \E e \in log, q \in Queues :
          /\ e.op = "process" /\ e.cause = "exists"
          /\ status[e.inst][q] = "RUNNING" /\ handler[e.inst][q] = "cb1"

BestRanked(tk) ==
    IF zset[tk.queue][tk.groups[tk.i]] = <<>> THEN 0
    ELSE Head(zset[tk.queue][tk.groups[tk.i]])

Completed(id) ==
    /\ invoked[id] > 0
    /\ \A tk \in BagToSet(tasks) : ~(tk.pc = "callback" /\ tk.job = id)

\* C21: a job's status only moves queued -> processing -> completed | failed,
\* the last step made by the completion report; a job whose callback has
\* signalled completion is completed or failed, and stays what it is.
C21_StatusLifecycle ==
    /\ [][\A id \in Admitted :
            jobs'[id].status # jobs[id].status =>
                <<jobs[id].status, jobs'[id].status>> \in
                    {<<"queued", "processing">>, <<"processing", "completed">>,
                     <<"processing", "failed">>}]_vars
    /\ [](\A id \in Admitted : Completed(id) => jobs[id].status \in {"completed", "failed"})
    /\ [][\A id \in Admitted :
            Completed(id) => jobs'[id].status = jobs[id].status]_vars

\* the tasks of s that are about to start a sweep or to handle a notification
Starting(s) == {tk \in BagToSet(tasks) : tk.inst = s /\ tk.pc \in {"acquire", "pushAcquire"}}

\* C22: once close() has been called on a subscriber, no sweep is started
\* and no notification is taken up; close() itself changes no task, no
\* consumer status and nothing in the store; a callback that was running
\* completes afterwards and its consumer is SLEEPING again.
C22_CloseStopsTriggers ==
    /\ [][\A s \in Subscribers :
            Draining(s) =>
                /\ msgs[s] \subseteq msgs'[s]
                /\ \A tk \in Starting(s) : CopiesIn(tk, tasks') <= CopiesIn(tk, tasks)
                /\ \A tk \in BagToSet(tasks') :
                      (tk.inst = s /\ tk.pc \in {"acquire", "pushAcquire"})
                          => tk \in Starting(s)]_vars
    /\ [][\A s \in Subscribers :
            (~Draining(s) /\ Draining(s)') =>
                /\ s \notin timerOn'
                /\ UNCHANGED <<tasks, status, jobs, groupsIndex, zset, discarded>>]_vars
    /\ [][\A tk \in BagToSet(tasks) :
            (/\ tk.pc = "callback" /\ Draining(tk.inst)
             /\ CopiesIn(tk, tasks') < CopiesIn(tk, tasks))
                => status'[tk.inst][tk.queue] = "SLEEPING"]_vars
    /\ [](\A s \in Subscribers, q \in Queues :
            (Draining(s) /\ status[s][q] = "RUNNING") => InFlight(s, q) # {})

\* a subscriber was closed and its consumer has returned to SLEEPING after a
\* callback, while a notification it never took up is pending and a job is
\* still in the store
C22_Witness ==
    \E s \in Subscribers, q \in Queues, id \in Admitted :
        /\ Draining(s) /\ status[s][q] = "SLEEPING"
        /\ \E id2 \in Admitted : invoked[id2] = 1 /\ Completed(id2)
        /\ ~\E tk \in BagToSet(tasks) : tk.inst = s
        /\ msgs[s] # {} /\ InStore(id)

\* C23: a group whose best-ranked entry is not yet eligible yields nothing and
\* keeps its entries, and the sweep goes on to the next group of its list.
C23_NoBlockingAcrossGroups ==
    [][\A tk \in BagToSet(tasks) :
          (/\ tk.pc = "evalsha"
           /\ CopiesIn(tk, tasks') < CopiesIn(tk, tasks)
           /\ BestRanked(tk) # 0
           /\ jobs[BestRanked(tk)].notBefore > now)
          => /\ zset' = zset /\ handed' = handed /\ invoked' = invoked
             /\ tk.i < Len(tk.groups) =>
                   [tk EXCEPT !.i = @ + 1, !.pc = "zcard", !.job = 0,
                              !.idle = @ \cup {tk.groups[tk.i]}] \in BagToSet(tasks')]_vars

\* a sweep is running the callback on a job of one group after another
\* group, whose best-ranked entry is still delayed, yielded nothing
C23_Witness ==
    \E tk \in BagToSet(tasks) : \E g \in tk.idle :
        /\ tk.pc = "callback"
        /\ jobs[tk.job].group # g
        /\ zset[tk.queue][g] # <<>>
        /\ jobs[Head(zset[tk.queue][g])].notBefore > now

\* task tk was resumed in this step
Resumed(tk) == CopiesIn(tk, tasks') < CopiesIn(tk, tasks)

\* C24: a sweep that finds a group's collection empty removes the group from
\* the index without running the dequeue script on it and goes on to the
\* next group; a sweep that finds the index empty ends and changes nothing;
\* an admission removes no group from any index.
C24_LazyPruning ==
    /\ [][\A tk \in BagToSet(tasks) :
            (tk.pc = "zcard" /\ Resumed(tk) /\ zset[tk.queue][tk.groups[tk.i]] = <<>>)
            => /\ [tk EXCEPT !.pc = "srem"] \in BagToSet(tasks')
               /\ UNCHANGED <<jobs, groupsIndex, zset, discarded, handed>>]_vars
    /\ [][\A tk \in BagToSet(tasks) :
            (tk.pc = "srem" /\ Resumed(tk))
            => /\ groupsIndex' = [groupsIndex EXCEPT ![tk.queue] = @ \ {tk.groups[tk.i]}]
               /\ UNCHANGED <<jobs, zset, discarded, handed, invoked>>
               /\ tk.i < Len(tk.groups) =>
                     [tk EXCEPT !.i = @ + 1, !.pc = "zcard", !.job = 0] \in BagToSet(tasks')]_vars
    /\ [][\A tk \in BagToSet(tasks) :
            (tk.pc = "smembers" /\ Resumed(tk) /\ groupsIndex[tk.queue] = {})
            => UNCHANGED <<jobs, groupsIndex, zset, discarded, handed, invoked, status>>]_vars
    /\ [][Len(jobs') > Len(jobs) =>
            \A q \in DOMAIN groupsIndex : groupsIndex[q] \subseteq groupsIndex'[q]]_vars

\* a sweep has pruned the first group of its list, without a pop, and is at
\* the second one, which holds a job
C24_Witness ==
    \E tk \in BagToSet(tasks) :
        /\ tk.pc = "zcard" /\ tk.i = 2
        /\ tk.got = <<>> /\ tk.idle = {}
        /\ tk.groups[1] \notin groupsIndex[tk.queue]
        /\ zset[tk.queue][tk.groups[1]] = <<>>
        /\ zset[tk.queue][tk.groups[2]] # <<>>

\* the tasks of kind `kind` that are about to acquire a connection for (s, q)
Triggered(kind, s, q, bag) ==
    BagCardinality([tk \in {t \in BagToSet(bag) :
                               /\ t.kind = kind /\ t.inst = s /\ t.queue = q
                               /\ t.pc \in {"acquire", "pushAcquire"}
                               /\ t.groups = <<>>} |-> bag[tk]])

\* C25: a notification is taken up (its handler goes on to acquire a
\* connection) only for a queue whose consumer is registered and SLEEPING at
\* that moment; the timer starts a sweep only for a consumer that is SLEEPING
\* when the timer's loop tests it; a notification for a queue without a
\* consumer, or whose consumer is RUNNING, is dropped and nothing changes.
C25_TriggerGuard ==
    /\ [][\A s \in Subscribers, q \in Queues :
            (/\ Triggered("push", s, q, tasks') > Triggered("push", s, q, tasks)
             /\ msgs'[s] # msgs[s])
                => status[s][q] = "SLEEPING"]_vars
    /\ [][\A s \in Subscribers, q \in Queues :
            Triggered("timer", s, q, tasks') > Triggered("timer", s, q, tasks)
                => status'[s][q] = "SLEEPING"]_vars
    /\ [][\A s \in Subscribers :
            (\E m \in msgs[s] \ msgs'[s] : status[s][m[1]] # "SLEEPING")
                => UNCHANGED <<jobs, groupsIndex, zset, discarded, status, tasks,
                               invoked, handed>>]_vars

\* two jobs were announced and both notifications were taken by the
\* subscriber while it had no consumer: no task exists, the jobs are in their
\* collections
C25_Witness ==
    \E s \in Subscribers :
        /\ \A q \in Queues : status[s][q] = "NONE"
        /\ msgs[s] = {}
        /\ tasks = EmptyBag
        /\ Len(jobs) = 2 /\ InStore(1) /\ InStore(2)

\* this step is an add() that returned the identity of job Len(jobs')
Admits == Len(sent') > Len(sent) /\ sent'[Len(sent')].returned # 0

\* the notifications that this step made observable to subscriber s
Announced(s) == msgs'[s] \ msgs[s]

\* a notification that becomes observable names the group of a job that is
\* in its collection, and the group is in the index
AnnouncedAfterCommit ==
    \A s \in Subscribers : \A m \in Announced(s) :
        /\ m[2] \in groupsIndex'[m[1]]
        /\ \E id \in 1..Len(jobs') :
              /\ jobs'[id].queue = m[1] /\ jobs'[id].group = m[2]
              /\ id \in Range(zset'[m[1]][m[2]])

AdmitsOn(inst) ==
    /\ Admits
    /\ \E q \in Queues, g \in Groups :
          add(inst, q, g, "object", NoOptions, "none", MaxRaceJobs)

C27_FailureIsFinal ==
    /\ [][\A tk \in BagToSet(tasks) :
            (tk.pc = "callback" /\ Resumed(tk))
            => /\ status'[tk.inst][tk.queue] = "SLEEPING"
               /\ UNCHANGED <<jobs, groupsIndex, zset, invoked, handed>>
               /\ tk.i < Len(tk.groups) =>
                     [tk EXCEPT !.i = @ + 1, !.pc = "zcard", !.job = 0] \in BagToSet(tasks')]_vars
    /\ [](\A id \in Admitted : invoked[id] > 0 => ~InStore(id) /\ invoked[id] = 1)

\* the callback of a job has completed (with any outcome, the state is the
\* same): the consumer is SLEEPING, the sweep is at its next group, the job
\* is in no collection while another job waits in the store
C27_Witness ==
    \E tk \in BagToSet(tasks), id \in Admitted :
        /\ tk.pc = "zcard" /\ tk.i = 2 /\ tk.got = <<id>>
        /\ Completed(id) /\ ~InStore(id)
        /\ status[tk.inst][tk.queue] = "SLEEPING"
        /\ \E id2 \in Admitted : InStore(id2)

\* C28: a job keeps its (queue, group) pair and is only ever in that pair's
\* collection; an admission to (Q, G) changes no other collection and no
\* other queue's index; a step of a sweep for Q changes nothing of another
\* queue; a callback of Q's consumer only runs jobs admitted to Q.
C28_QueueIsolation ==
    /\ [][\A id \in Admitted :
            jobs'[id].queue = jobs[id].queue /\ jobs'[id].group = jobs[id].group]_vars
    /\ [](\A q \in DOMAIN zset, g \in Groups : \A id \in Range(zset[q][g]) :
            jobs[id].queue = q /\ jobs[id].group = g)
    /\ [][Admits =>
            \A q \in DOMAIN zset :
                /\ q # sent'[Len(sent')].queue => groupsIndex'[q] = groupsIndex[q]
                /\ \A g \in Groups :
                      <<q, g>> # <<sent'[Len(sent')].queue, sent'[Len(sent')].group>>
                          => zset'[q][g] = zset[q][g]]_vars
    /\ [][\A tk \in BagToSet(tasks) :
            Resumed(tk) =>
                \A q \in DOMAIN zset \ {tk.queue} :
                    zset'[q] = zset[q] /\ groupsIndex'[q] = groupsIndex[q]]_vars
    /\ [](\A tk \in BagToSet(tasks) :
            tk.pc = "callback" => jobs[tk.job].queue = tk.queue)

\* the consumer of one queue runs a job of its queue and group g after a
\* sweep of the other queue has delivered a job of its own group g and
\* pruned that group, which is still indexed in the first queue
C28_Witness ==
    \E tk \in BagToSet(tasks), id \in Admitted, g \in Groups :
        /\ tk.pc = "callback" /\ jobs[tk.job].group = g
        /\ jobs[id].queue # tk.queue /\ jobs[id].group = g
        /\ Completed(id) /\ g \notin groupsIndex[jobs[id].queue]
        /\ g \in groupsIndex[tk.queue]

\* every task of instance s waits for a connection and none is left: the
\* tasks that hold the connections are among the waiting ones
Starved(s) ==
    /\ pool[s].borrowed = pool[s].max
    /\ \E tk \in BagToSet(tasks) : tk.inst = s
    /\ \A tk \in BagToSet(tasks) : tk.inst = s => tk.pc \in {"pushAcquire", "acquire"}

\* C29: nested acquisition cannot exhaust the pool: there is never a state in
\* which all connections of an instance are lent and every task of the
\* instance, the lenders included, waits to acquire one.
C29_NoPoolDeadlock == [](\A s \in DOMAIN pool : ~Starved(s))

\* the connections a task holds at the await it is suspended at: a message
\* handler holds one from its ZCARD on, a sweep one from SMEMBERS on
Held(tk) ==
    (IF tk.kind = "push" /\ tk.pc # "pushAcquire" THEN 1 ELSE 0)
    + (IF tk.pc \in {"smembers", "zcard", "srem", "evalsha", "callback"} THEN 1 ELSE 0)

RECURSIVE HeldIn(_)
HeldIn(S) ==
    IF S = {} THEN 0
    ELSE LET tk == CHOOSE t \in S : TRUE
         IN CopiesIn(tk, tasks) * Held(tk) + HeldIn(S \ {tk})

HeldBy(inst) == HeldIn({tk \in BagToSet(tasks) : tk.inst = inst})

Alone(tk) == Sweeps(tk.inst, tk.queue) = {tk} /\ CopiesIn(tk, tasks) = 1

\* no task is inside processQueueTasks for the consumer of tk any more
SweepOver(tk, bag) ==
    \A t2 \in BagToSet(bag) :
        ~(t2.inst = tk.inst /\ t2.queue = tk.queue /\ t2.pc \in SweepPcs)

\* C31: a sweep that is the only one active on its consumer has no dispatch
\* refused: each well-formed job it pops has its callback invoked at once;
\* while it is at any await but the callback's, the consumer is SLEEPING and
\* every callback invoked for the queue has completed, so it pops from the
\* next group only after the callback it awaited; and when it ends the
\* consumer is SLEEPING.
C31_UnracedSweepDelivers ==
    /\ [][\A tk \in BagToSet(tasks) :
            (tk.pc = "evalsha" /\ Resumed(tk) /\ Alone(tk))
            => /\ rejected' = rejected
               /\ \A id \in Admitted :
                     (handed'[id] > handed[id] /\ JobData(id).data # "SyntaxError")
                     => /\ invoked'[id] = invoked[id] + 1
                        /\ status'[tk.inst][tk.queue] = "RUNNING"
                        /\ \E t2 \in BagToSet(tasks') :
                              t2.pc = "callback" /\ t2.job = id /\ t2.inst = tk.inst]_vars
    /\ [](\A tk \in BagToSet(tasks) :
            (tk.pc \in SweepPcs \ {"callback"} /\ Alone(tk))
            => /\ status[tk.inst][tk.queue] = "SLEEPING"
               /\ \A id \in Admitted :
                     jobs[id].queue = tk.queue /\ invoked[id] > 0 => Completed(id))
    /\ [][\A tk \in BagToSet(tasks) :
            (tk.pc \in SweepPcs /\ Resumed(tk) /\ Alone(tk) /\ SweepOver(tk, tasks'))
            => status'[tk.inst][tk.queue] = "SLEEPING"]_vars

\* a sweep, alone on its consumer, runs the callback of the job of its second
\* group after the callback of the job of its first group has completed
C31_Witness ==
    \E tk \in BagToSet(tasks) :
        /\ Alone(tk) /\ tk.pc = "callback" /\ tk.i = 2 /\ Len(tk.got) = 2
        /\ Completed(tk.got[1]) /\ invoked[tk.got[2]] = 1
        /\ rejected = {}

\* a process() call on inst has just thrown: its record is new in the log
ProcessThrew(inst) ==
    \E e \in log' \ log : e.op = "process" /\ e.inst = inst /\ e.res = "throw"

\* C32: a process() call that throws, for whatever cause, leaves the
\* consumers of its instance as they were, so no queue is registered by a
\* call that failed.
C32_FailedProcessRegistersNothing ==
    [][\A inst \in Instances :
          ProcessThrew(inst)
          => (inst \in Subscribers
                 => UNCHANGED <<regOrder[inst], handler[inst], status[inst]>>)]_vars

====
